---- MODULE Spec2Model ----
(***************************************************************************)
(* The visa slot watcher: the poll loop of src/src/index.js and of the     *)
(* earlier script variant src/unnamed/part_000, with the dedup state       *)
(* store, the upstream HTTP conversation and the notification dispatcher.  *)
(*                                                                         *)
(* Both script variants are modelled; `variant` says which one runs.  The  *)
(* JavaScript code runs to completion between two awaits, so one action is *)
(* the code from one await's continuation to the next await.  The remote   *)
(* sides (the reservation site, the notification endpoint) and the timers  *)
(* are the environment.                                                    *)
(***************************************************************************)
EXTENDS Integers, Sequences, FiniteSets, TLC

(***************************************************************************)
(* Bounds of the model.                                                    *)
(***************************************************************************)
\* ISO dates are modelled by 1..MaxDate, in calendar order.
MaxDate == 2
\* nowIso() is modelled by a clock that saturates at MaxClock; it advances
\* between two reads that are stored in the state.
MaxClock == 2
\* config.monthsAhead ranges over 1..MaxMonths.
MaxMonths == 2
\* The per-key count of dispatched alerts saturates at MaxCount.
MaxCount == 2
\* An alert text is split into 1..MaxChunks chunks.
MaxChunks == 2

Variants == {"index.js", "part_000"}
Dates == 1..MaxDate
PlanIds == {20, 34}

\* The slot key "<planId>|<date>": injective, as neither part holds a "|".
Key(planId, date) == <<planId, date>>
Keys == {Key(p, d) : p \in PlanIds, d \in Dates}

Plan(id, label) == [id |-> id, label |-> label]
SyntheticLabel(id) == IF id = 20 THEN "Plan 20" ELSE "Plan 34"

\* /visa/i.test(label) on the labels of the model.
IsVisaLabel(label) == label \in {"VISA Application", "Visa renewal", "Working Holiday Visa"}

\* What parsePlans can return: duplicate-free by (id, label), in page order.
Catalogs ==
  { <<>>,
    <<Plan(20, "VISA Application")>>,
    <<Plan(20, "VISA Application"), Plan(34, "Certification")>>,
    <<Plan(34, "Working Holiday Visa"), Plan(20, "VISA Application")>>,
    <<Plan(20, "VISA Application"), Plan(20, "Visa renewal")>> }

Range(s) == {s[i] : i \in 1..Len(s)}
Min(a, b) == IF a <= b THEN a ELSE b

Slot(plan, date) == [planId |-> plan.id, planLabel |-> plan.label, date |-> date]
KeyOf(slot) == Key(slot.planId, slot.date)
KeysOf(slots) == {KeyOf(slots[i]) : i \in 1..Len(slots)}

\* What nowIso() returns when the last stored reading was t.
NowIso(t) == Min(t + 1, MaxClock)

\* The empty mapping {} of state.seen.
EmptySeen == [k \in {} |-> 0]

(***************************************************************************)
(* The dedup state store.                                                  *)
(***************************************************************************)
\* The durable record: missing, not parseable, or an object with a seen map.
MissingFile == [kind |-> "missing", seen |-> EmptySeen]
InvalidFile == [kind |-> "invalid", seen |-> EmptySeen]
JsonFile(s) == [kind |-> "json", seen |-> s]

\* A defective loadState: the record is ignored and the run starts empty.
LoadStateIgnoresFile(f) == EmptySeen

LoadState(f) == IF f.kind = "json" THEN f.seen ELSE EmptySeen

\* A defective saveState that writes a record without the keys.
SaveStateEmpty(s) == JsonFile(EmptySeen)

SaveState(s) == JsonFile(s)

(***************************************************************************)
(* Plans.                                                                  *)
(***************************************************************************)
RECURSIVE DedupePlansFrom(_, _, _)
DedupePlansFrom(plans, i, out) ==
  IF i > Len(plans) THEN out
  ELSE IF plans[i] \in Range(out) THEN DedupePlansFrom(plans, i + 1, out)
  ELSE DedupePlansFrom(plans, i + 1, Append(out, plans[i]))

DedupePlans(plans) == DedupePlansFrom(plans, 1, <<>>)

\* A defective resolution without the fallback to the allow-listed ids.
SelectTargetPlansNoFallback(planIds, allPlans) ==
  IF Len(planIds) > 0
  THEN SelectSeq(allPlans, LAMBDA p : p.id \in Range(planIds))
  ELSE allPlans

SelectTargetPlansIndex(planIds, allPlans) ==
  IF Len(planIds) > 0
  THEN LET fromPage == SelectSeq(allPlans, LAMBDA p : p.id \in Range(planIds))
       IN  IF Len(fromPage) > 0 THEN fromPage
           ELSE [i \in 1..Len(planIds) |-> Plan(planIds[i], SyntheticLabel(planIds[i]))]
  ELSE allPlans

SelectTargetPlansPart000(planIds, allPlans) ==
  IF Len(planIds) > 0
  THEN SelectSeq(allPlans, LAMBDA p : p.id \in Range(planIds))
  ELSE LET visaPlans == SelectSeq(allPlans, LAMBDA p : IsVisaLabel(p.label))
       IN  IF Len(visaPlans) > 0 THEN visaPlans ELSE allPlans

SelectTargetPlans(v, planIds, allPlans) ==
  IF v = "index.js" THEN SelectTargetPlansIndex(planIds, allPlans)
  ELSE SelectTargetPlansPart000(planIds, allPlans)

\* allPlans of checkOnce: the parsed catalog, or one synthetic plan for the
\* selected plan id (0: none selected) when the catalog is empty.
AllPlans(catalog, selected) ==
  IF Len(catalog) = 0 /\ selected > 0
  THEN <<Plan(selected, SyntheticLabel(selected))>>
  ELSE catalog

(***************************************************************************)
(* Slots.                                                                  *)
(***************************************************************************)
\* The slots one calendar response adds to found: parseAvailableDates
\* returns its dates sorted and duplicate-free.
RECURSIVE SlotsOf(_, _, _)
SlotsOf(plan, dates, d) ==
  IF d > MaxDate THEN <<>>
  ELSE (IF d \in dates THEN <<Slot(plan, d)>> ELSE <<>>) \o SlotsOf(plan, dates, d + 1)

\* The comparator of dedupeFoundSlots: by date, then by planId.
SlotBefore(a, b) ==
  IF a.date # b.date THEN a.date < b.date ELSE a.planId < b.planId

\* Array.prototype.sort is stable: insert after every element not after x.
RECURSIVE InsertSlot(_, _)
InsertSlot(sorted, x) ==
  IF Len(sorted) = 0 THEN <<x>>
  ELSE IF SlotBefore(x, sorted[1]) THEN <<x>> \o sorted
  ELSE <<sorted[1]>> \o InsertSlot(Tail(sorted), x)

RECURSIVE SortSlots(_)
SortSlots(slots) ==
  IF Len(slots) = 0 THEN <<>>
  ELSE InsertSlot(SortSlots(SubSeq(slots, 1, Len(slots) - 1)), slots[Len(slots)])

RECURSIVE FirstByKey(_, _, _)
FirstByKey(slots, i, out) ==
  IF i > Len(slots) THEN out
  ELSE IF KeyOf(slots[i]) \in KeysOf(out) THEN FirstByKey(slots, i + 1, out)
  ELSE FirstByKey(slots, i + 1, Append(out, slots[i]))

DedupeFoundSlots(slots) == SortSlots(FirstByKey(slots, 1, <<>>))

\* The seen filter of part_000's checkOnce: a slot whose key is not in seen
\* is marked with the current time and pushed to newMatches, in found order.
MarkSeen(s, slot, t) == KeyOf(slot) :> t @@ s

\* A defective newness check: every discovered slot counts as new.
IsNewAlways(s, slot) == TRUE

IsNew(s, slot) == KeyOf(slot) \notin DOMAIN s

RECURSIVE SeenFilter(_, _, _, _, _)
SeenFilter(s, found, t, i, out) ==
  IF i > Len(found) THEN [seen |-> s, newMatches |-> out]
  ELSE IF IsNew(s, found[i])
       THEN SeenFilter(MarkSeen(s, found[i], t), found, t, i + 1, Append(out, found[i]))
       ELSE SeenFilter(s, found, t, i + 1, out)

(***************************************************************************)
(* The state.                                                              *)
(***************************************************************************)
VARIABLES
  variant,      \* which script runs: "index.js" or "part_000"
  cfg,          \* config: read once from the environment, never changed
  pc,           \* where main() is: boot, startup, get, cat, probe, cal, send, sleep, exited
  phase,        \* of the HTTP call in progress: idle, request, response, body
  respOk,       \* response.ok of the response in hand
  timer,        \* fetchWithTimeout's abort timer is armed
  now,          \* the last reading of nowIso() stored in state.seen
  seen,         \* state.seen, the in-memory mapping key -> timestamp
  file,         \* the durable record at config.stateFile
  loc,          \* checkOnce's locals: catTry, lastError, plans, counters, cookie, tokens
  found,        \* checkOnce's found, kept until the next cycle starts
  handed,       \* the slots given to buildAlertText/sendTelegramMessage in this cycle
  seenAtStart,  \* history: the keys of state.seen when the cycle started
  outcome,      \* history: none, running, ok, failed, dispatch_failed
  watch,        \* history: the slot key the next three variables observe
  alertCount,   \* history: the alerts dispatched with watch in this process run
  deliveredOK,  \* history: an alert with watch was delivered (dry run: logged)
  lost,         \* history: watch was marked in a cycle of this run whose dispatch failed
  inflight,     \* the HTTP requests of the process that have not settled
  active,       \* the calls of checkOnce that have not settled
  requested,    \* this process run has made an HTTP request
  error,        \* the error the catch of the loop logged for the cycle that ended last
  exitCode,     \* the code of process.exit, 0 while none was made
  arg,          \* the argument of the function under check (function checks only)
  ret           \* what the function under check returned (function checks only)

vars == <<variant, cfg, pc, phase, respOk, timer, now, seen, file, loc, found,
          handed, seenAtStart, outcome, watch, alertCount, deliveredOK, lost,
          inflight, active, requested, error, exitCode, arg, ret>>

configVars == <<variant, cfg, watch>>

\* What no step of the poll loop changes.
quietVars == <<configVars, exitCode, arg, ret>>

\* cookie and tokens hold the responses their values were taken from: "get"
\* and "cat" of the running cycle, "old" for a response of an earlier cycle.
InitLoc == [catTry |-> 0, lastError |-> "none", allPlans |-> <<>>, targetPlans |-> <<>>,
            pi |-> 0, m |-> 0, chunk |-> 0, nChunks |-> 0, cookie |-> {}, tokens |-> {}]

Config(dryRun, hasCreds, notice, planIds, monthsAhead) ==
  [dryRun |-> dryRun, hasCreds |-> hasCreds, sendStartupNotice |-> notice,
   planIds |-> planIds, monthsAhead |-> monthsAhead]

\* The configurations of the model: plans discovered or allow-listed, one
\* month or several, live or dry run, with and without the credentials and
\* the startup notice.
Configs ==
  { Config(FALSE, TRUE, TRUE, <<>>, 1),
    Config(FALSE, TRUE, FALSE, <<20>>, MaxMonths),
    Config(FALSE, TRUE, TRUE, <<34>>, 1),
    Config(TRUE, FALSE, TRUE, <<>>, 1),
    Config(TRUE, TRUE, FALSE, <<20>>, 1),
    Config(FALSE, FALSE, TRUE, <<20>>, 1) }

\* The state file a start can find: none, an unparseable one, and records this
\* program wrote in an earlier run (timestamp 0: before this run's clock).
InitialFiles ==
  {MissingFile, InvalidFile, JsonFile(Key(20, 1) :> 0)}

Init ==
  /\ variant \in Variants
  /\ cfg \in Configs
  /\ file \in InitialFiles
  /\ pc = "boot"
  /\ phase = "idle"
  /\ respOk = FALSE
  /\ timer = FALSE
  /\ now = 0
  /\ seen = EmptySeen
  /\ loc = InitLoc
  /\ found = <<>>
  /\ handed = <<>>
  /\ seenAtStart = {}
  /\ outcome = "none"
  /\ watch \in Keys
  /\ alertCount = 0
  /\ deliveredOK = FALSE
  /\ lost = FALSE
  /\ inflight = 0
  /\ active = 0
  /\ requested = FALSE
  /\ error = "none"
  /\ exitCode = 0
  /\ arg = <<>>
  /\ ret = <<>>

(***************************************************************************)
(* Steps shared by the actions.                                            *)
(***************************************************************************)
\* A defective caller that goes on without awaiting the call it made.
Unawaited(n, ph) == n

\* The requests that have not settled when the code goes on after
\* `await fetchWithTimeout(...)` and the read of the body: the awaited call,
\* if one was made (ph is not idle), has been answered, rejected or aborted.
Settled(n, ph) == IF ph = "idle" THEN n ELSE n - 1

\* fetchWithTimeout up to its await: the request leaves and the timer is armed.
Fetch(p) ==
  /\ pc' = p
  /\ phase' = "request"
  /\ timer' = TRUE
  /\ respOk' = FALSE
  /\ inflight' = Settled(inflight, phase) + 1
  /\ requested' = TRUE

\* A defective cycle start that resumes with the slots of the cycle before.
BeginCycleKeepsFound ==
  /\ Fetch("get")
  /\ loc' = InitLoc
  /\ found' = found
  /\ handed' = <<>>
  /\ seenAtStart' = DOMAIN seen'
  /\ outcome' = "running"
  /\ active' = active + 1
  /\ error' = "none"

\* while (true) { try { await checkOnce(state) ...: checkOnce runs to the
\* await of the initial GET.
BeginCycle ==
  /\ Fetch("get")
  /\ loc' = InitLoc
  /\ found' = <<>>
  /\ handed' = <<>>
  /\ seenAtStart' = DOMAIN seen'
  /\ outcome' = "running"
  /\ active' = active + 1
  /\ error' = "none"

\* checkOnce returned or threw; the loop's catch logs and main awaits sleep().
EndCycle(result) ==
  /\ pc' = "sleep"
  /\ phase' = "idle"
  /\ timer' = FALSE
  /\ respOk' = FALSE
  /\ loc' = InitLoc
  /\ outcome' = result
  /\ active' = active - 1
  /\ inflight' = Settled(inflight, phase)
  /\ requested' = requested

\* A defective loop without the try/catch: the exception ends main().
CycleFailsUncaught ==
  /\ pc' = "exited"
  /\ phase' = "idle"
  /\ timer' = FALSE
  /\ exitCode' = 1
  /\ UNCHANGED <<configVars, arg, ret, respOk, now, seen, file, loc, found, handed,
                 seenAtStart, outcome, active, inflight, requested, alertCount,
                 deliveredOK, lost>>

\* An exception of an upstream step: nothing but the loop's catch runs.
CycleFails ==
  /\ EndCycle("failed")
  /\ UNCHANGED <<quietVars, now, seen, file, found, handed, seenAtStart,
                 alertCount, deliveredOK, lost>>

\* throw new Error(...) in an upstream step of checkOnce; e is what the catch
\* of the loop logs.
Throw(e) ==
  /\ error' = e
  /\ CycleFails

\* A defective catch that takes the marks of the failed cycle back.
SeenRolledBack(s, marked) == [k \in DOMAIN s \ marked |-> s[k]]

\* state.seen after a dispatch failed: the catch of the loop leaves it alone.
SeenAfterFailedDispatch(s, marked) == s

\* An exception of sendTelegramMessage inside checkOnce, logged as e.
DispatchFails(e) ==
  /\ EndCycle("dispatch_failed")
  /\ error' = e
  /\ seen' = SeenAfterFailedDispatch(seen, DOMAIN seen \ seenAtStart)
  /\ lost' = (lost \/ watch \in DOMAIN seen \ seenAtStart)
  /\ UNCHANGED <<quietVars, now, file, found, handed, seenAtStart,
                 alertCount, deliveredOK>>

CountAlert(list) ==
  IF watch \in KeysOf(list) THEN Min(alertCount + 1, MaxCount) ELSE alertCount

\* What sendTelegramMessage throws, before any request, when the bot token or
\* the chat id is empty and the run is not a dry run.
MissingCredentials == "TELEGRAM_BOT_TOKEN and TELEGRAM_CHAT_ID are required"

\* sendTelegramMessage(buildAlertText(list)) and what follows it in checkOnce.
\* Dry run: the text is logged and the call returns; without the credentials
\* the call throws; otherwise the first chunk's request leaves.  part_000 sends the text whole and saves the state
\* after the send; index.js splits the text and saves nothing.
Dispatch(list) ==
  /\ handed' = list
  /\ alertCount' = CountAlert(list)
  /\ IF cfg.dryRun
     THEN /\ deliveredOK' = (deliveredOK \/ watch \in KeysOf(list))
          /\ file' = IF variant = "part_000" THEN SaveState(seen') ELSE file
          /\ EndCycle("ok")
          /\ error' = error
     ELSE IF ~cfg.hasCreds
     THEN /\ EndCycle("dispatch_failed")
          /\ error' = MissingCredentials
          /\ UNCHANGED <<deliveredOK, file>>
     ELSE /\ \E n \in 1..MaxChunks :
               /\ variant = "part_000" => n = 1
               /\ loc' = [loc EXCEPT !.chunk = 1, !.nChunks = n]
          /\ Fetch("send")
          /\ UNCHANGED <<outcome, active, error, deliveredOK, file>>

\* The end of checkOnce, once the sweep has filled found.
Finish(allFound) ==
  /\ found' = allFound
  /\ IF variant = "index.js"
     THEN LET uniqueFound == DedupeFoundSlots(allFound)
          IN  /\ seen' = seen
              /\ now' = now
              /\ IF Len(uniqueFound) > 0
                 THEN Dispatch(uniqueFound)
                 ELSE /\ EndCycle("ok")
                      /\ UNCHANGED <<handed, alertCount, deliveredOK, file, error>>
     ELSE LET r == SeenFilter(seen, allFound, NowIso(now), 1, <<>>)
          IN  /\ seen' = r.seen
              /\ now' = IF Len(r.newMatches) > 0 THEN NowIso(now) ELSE now
              /\ IF Len(r.newMatches) > 0
                 THEN Dispatch(r.newMatches)
                 ELSE /\ EndCycle("ok")
                      /\ UNCHANGED <<handed, alertCount, deliveredOK, file, error>>
  /\ UNCHANGED <<quietVars, seenAtStart, lost>>

\* A defective client that merges a cookie it kept from an earlier cycle.
CookieWithCache(held, issued) == issued \cup {"old"}

\* const cookie = buildCookieHeader(response) after the initial GET.
CookieAfterGet(held, issued) == issued

\* mergeCookieHeaders(cookie, newCookie) after the category POST.
CookieAfterCategory(held, issued) == held \cup issued

\* The session context once the body of the call at pc is read: the landing
\* page gives the cookie and the tokens, the category answer of index.js
\* merges its cookies and gives the tokens the calendar requests carry.
SessionAfter(l) ==
  IF pc = "get"
  THEN [l EXCEPT !.cookie = CookieAfterGet(l.cookie, {"get"}), !.tokens = {"get"}]
  ELSE IF pc = "cat"
  THEN [l EXCEPT !.cookie = CookieAfterCategory(l.cookie, {"cat"}), !.tokens = {"cat"}]
  ELSE l

\* A defective sweep that begins with the month after the current one.
StartSweepNextMonth(allPlans, targetPlans) ==
  /\ loc' = [SessionAfter(loc) EXCEPT !.allPlans = allPlans, !.targetPlans = targetPlans,
                        !.pi = 1, !.m = 1]
  /\ Fetch("cal")
  /\ UNCHANGED <<quietVars, now, seen, file, found, handed, seenAtStart, outcome, active, error,
                 alertCount, deliveredOK, lost>>

\* The sweep: for (plan of targetPlans) for (m < monthsAhead) fetchCalendarByPlan.
StartSweep(allPlans, targetPlans) ==
  /\ loc' = [SessionAfter(loc) EXCEPT !.allPlans = allPlans, !.targetPlans = targetPlans,
                        !.pi = 1, !.m = 0]
  /\ Fetch("cal")
  /\ UNCHANGED <<quietVars, now, seen, file, found, handed, seenAtStart, outcome, active, error,
                 alertCount, deliveredOK, lost>>

\* fetch resolved with a response (the finally of fetchWithTimeout cleared
\* the timer) and the caller awaits response.text().
AwaitBody(ok) ==
  /\ phase' = "body"
  /\ timer' = FALSE
  /\ respOk' = ok
  /\ UNCHANGED <<quietVars, inflight, requested, pc, now, seen, file, loc, found, handed,
                 seenAtStart, outcome, active, error, alertCount, deliveredOK, lost>>

\* The try/catch around the startup notice, then the loop is entered.
EnterLoop ==
  /\ seen' = seen
  /\ BeginCycle
  /\ UNCHANGED <<quietVars, now, file, alertCount, deliveredOK, lost>>

\* await fetch(...) rejects with e: where the exception goes.
FetchRejected(e) ==
  IF pc = "startup" THEN EnterLoop
  ELSE IF pc = "send" THEN DispatchFails(e)
  ELSE Throw(e)

(***************************************************************************)
(* main() up to its first await.                                           *)
(***************************************************************************)
\* A defective main() without the check of the credentials.
CredentialsUnchecked == FALSE

\* if (!config.dryRun && (!config.telegramBotToken || !config.telegramChatId))
CredentialsMissing == ~cfg.dryRun /\ ~cfg.hasCreds

\* part_000 always sends the startup notice; index.js has a toggle.
StartupNoticeOn == variant = "part_000" \/ cfg.sendStartupNotice

MainFatal ==
  /\ pc = "boot"
  /\ CredentialsMissing
  /\ pc' = "exited"
  /\ exitCode' = 1
  /\ UNCHANGED <<configVars, arg, ret, inflight, requested, phase, respOk, timer, now, seen, file, loc, found,
                 handed, seenAtStart, outcome, active, error, alertCount, deliveredOK, lost>>

MainStartupNotice ==
  /\ pc = "boot"
  /\ ~CredentialsMissing
  /\ StartupNoticeOn /\ ~cfg.dryRun
  /\ seen' = LoadState(file)
  /\ IF cfg.hasCreds
     THEN /\ Fetch("startup")
          /\ UNCHANGED <<loc, found, handed, seenAtStart, outcome, active, error>>
     ELSE BeginCycle
  /\ UNCHANGED <<quietVars, now, file, alertCount, deliveredOK, lost>>

MainEnterLoop ==
  /\ pc = "boot"
  /\ ~CredentialsMissing
  /\ ~StartupNoticeOn \/ cfg.dryRun
  /\ seen' = LoadState(file)
  /\ BeginCycle
  /\ UNCHANGED <<quietVars, now, file, alertCount, deliveredOK, lost>>

(***************************************************************************)
(* The network, the timers, the operator's kill.                           *)
(***************************************************************************)
\* A network error: fetch rejects.
ConnectionFails ==
  /\ phase = "request"
  /\ FetchRejected("network")

\* setTimeout(() => controller.abort(), timeoutMs) fires: fetch rejects with
\* an AbortError.  The timer is armed only until fetch resolves.
TimerFires ==
  /\ timer
  /\ phase \in {"request", "response"}
  /\ FetchRejected("abort")

\* The process is killed and started again: the memory is lost, the state
\* file and what was delivered stay.
Crash ==
  /\ pc \notin {"boot", "exited"}
  /\ pc' = "boot"
  /\ phase' = "idle"
  /\ respOk' = FALSE
  /\ timer' = FALSE
  /\ seen' = EmptySeen
  /\ loc' = InitLoc
  /\ found' = <<>>
  /\ handed' = <<>>
  /\ seenAtStart' = {}
  /\ outcome' = "none"
  /\ alertCount' = 0
  /\ lost' = FALSE
  /\ inflight' = 0
  /\ active' = 0
  /\ requested' = FALSE
  /\ error' = "none"
  /\ UNCHANGED <<quietVars, now, file, deliveredOK>>

(***************************************************************************)
(* The startup notice: sendTelegramMessage(buildStartupTestText()).        *)
(***************************************************************************)
\* A 2xx: the notice is sent.  Another status: the error body is read.
StartupResponse ==
  /\ pc = "startup" /\ phase = "request"
  /\ \E ok \in BOOLEAN : IF ok THEN EnterLoop ELSE AwaitBody(FALSE)

\* throw new Error(`telegram send failed: ...`), caught by main.
StartupErrorBody ==
  /\ pc = "startup" /\ phase = "body"
  /\ EnterLoop

(***************************************************************************)
(* checkOnce: the initial GET.                                             *)
(***************************************************************************)
GetResponse ==
  /\ pc = "get" /\ phase = "request"
  /\ \E ok \in BOOLEAN : IF ok THEN AwaitBody(TRUE) ELSE Throw("initial GET failed")

\* index.js goes on to selectVisaCategoryContext, ajax endpoint first.
GetBodyIndex ==
  /\ pc = "get" /\ phase = "body" /\ variant = "index.js"
  /\ loc' = [SessionAfter(loc) EXCEPT !.catTry = 1]
  /\ Fetch("cat")
  /\ UNCHANGED <<quietVars, now, seen, file, found, handed, seenAtStart, outcome, active, error,
                 alertCount, deliveredOK, lost>>

\* part_000 reads the plans from the landing page.
GetBodyPart000 ==
  /\ pc = "get" /\ phase = "body" /\ variant = "part_000"
  /\ \E catalog \in Catalogs, selected \in {0, 20} :
       LET allPlans == AllPlans(catalog, selected)
           targetPlans == SelectTargetPlans(variant, cfg.planIds, allPlans)
       IN  IF Len(targetPlans) = 0 THEN Throw("No plans detected")
           ELSE StartSweep(allPlans, targetPlans)

(***************************************************************************)
(* checkOnce of index.js: selectVisaCategoryContext and the probe.         *)
(***************************************************************************)
\* The body is read whatever the status.
CatResponse ==
  /\ pc = "cat" /\ phase = "request"
  /\ \E ok \in BOOLEAN : AwaitBody(ok)

\* tryUrls: the ajax endpoint, then the page endpoint.
TryUrls == <<"ajax", "page">>

\* new Error(`category select POST failed via ${url}: ...`)
CategoryError(url) ==
  IF url = "ajax" THEN "category select POST failed via ajax"
  ELSE "category select POST failed via page"

\* A defective loop that keeps the first error.
FirstError(prev, e) == IF prev = "none" THEN e ELSE prev

\* lastError = new Error(...): the assignment replaces the error kept so far.
LastError(prev, e) == e

\* A non-2xx status: lastError is set and the next endpoint is tried; after
\* the last one lastError is thrown.
CatBodyNotOk ==
  /\ pc = "cat" /\ phase = "body" /\ ~respOk
  /\ LET lastError == LastError(loc.lastError, CategoryError(TryUrls[loc.catTry]))
     IN  IF loc.catTry < Len(TryUrls)
         THEN /\ loc' = [loc EXCEPT !.catTry = loc.catTry + 1, !.lastError = lastError]
              /\ Fetch("cat")
              /\ UNCHANGED <<quietVars, now, seen, file, found, handed, seenAtStart,
                             outcome, active, error, alertCount, deliveredOK, lost>>
         ELSE Throw(lastError)

CatBodyOk ==
  /\ pc = "cat" /\ phase = "body" /\ respOk
  /\ \E catalog \in Catalogs, selected \in {0, 20} :
       LET allPlans == AllPlans(catalog, selected)
           targetPlans == SelectTargetPlans(variant, cfg.planIds, allPlans)
       IN  IF Len(cfg.planIds) = 0
           THEN /\ loc' = [SessionAfter(loc) EXCEPT !.allPlans = allPlans]
                /\ Fetch("probe")
                /\ UNCHANGED <<quietVars, now, seen, file, found, handed,
                               seenAtStart, outcome, active, error, alertCount, deliveredOK, lost>>
           ELSE IF Len(targetPlans) = 0 THEN Throw("No plans detected")
           ELSE StartSweep(allPlans, targetPlans)

ProbeResponse ==
  /\ pc = "probe" /\ phase = "request"
  /\ \E ok \in BOOLEAN : AwaitBody(ok)

ProbeBody ==
  /\ pc = "probe" /\ phase = "body"
  /\ IF ~respOk THEN Throw("calendar POST failed")
     ELSE \E discovered \in Catalogs :
            LET allPlans == IF Len(discovered) > 0 THEN DedupePlans(discovered)
                            ELSE loc.allPlans
                targetPlans == SelectTargetPlans(variant, cfg.planIds, allPlans)
            IN  IF Len(targetPlans) = 0 THEN Throw("No plans detected")
                ELSE StartSweep(allPlans, targetPlans)

(***************************************************************************)
(* checkOnce: the sweep over plans and months, and its end.                *)
(***************************************************************************)
\* part_000 throws on a non-2xx status before it reads the body; index.js
\* reads the body first.
CalResponse ==
  /\ pc = "cal" /\ phase = "request"
  /\ \E ok \in BOOLEAN :
       IF variant = "part_000" /\ ~ok THEN Throw("calendar POST failed")
       ELSE AwaitBody(ok)

CalBody ==
  /\ pc = "cal" /\ phase = "body"
  /\ IF ~respOk THEN Throw("calendar POST failed")
     ELSE \E dates \in SUBSET Dates :
            LET allFound == found \o SlotsOf(loc.targetPlans[loc.pi], dates, 1)
                next(pi, m) ==
                  /\ found' = allFound
                  /\ loc' = [loc EXCEPT !.pi = pi, !.m = m]
                  /\ Fetch("cal")
                  /\ UNCHANGED <<quietVars, now, seen, file, handed, seenAtStart,
                                 outcome, active, error, alertCount, deliveredOK, lost>>
            IN  IF loc.m + 1 < cfg.monthsAhead THEN next(loc.pi, loc.m + 1)
                ELSE IF loc.pi < Len(loc.targetPlans) THEN next(loc.pi + 1, 0)
                ELSE Finish(allFound)

(***************************************************************************)
(* sendTelegramMessage for an alert.                                       *)
(***************************************************************************)
\* The notification endpoint handles the request and answers with a status;
\* the answer is then on its way to the process.  A 2xx to the last chunk
\* means the alert is delivered.
TelegramResponds ==
  /\ pc = "send" /\ phase = "request"
  /\ \E ok \in BOOLEAN :
       /\ respOk' = ok
       /\ deliveredOK' =
            (deliveredOK \/ (ok /\ loc.chunk = loc.nChunks /\ watch \in KeysOf(handed)))
  /\ phase' = "response"
  /\ UNCHANGED <<quietVars, inflight, requested, pc, timer, now, seen, file, loc, found, handed,
                 seenAtStart, outcome, active, error, alertCount, lost>>

\* A 2xx: the next chunk is sent; after the last one part_000 saves the state.
SendAccepted ==
  /\ pc = "send" /\ phase = "response" /\ respOk
  /\ IF loc.chunk < loc.nChunks
     THEN /\ loc' = [loc EXCEPT !.chunk = loc.chunk + 1]
          /\ Fetch("send")
          /\ UNCHANGED <<quietVars, now, seen, file, found, handed, seenAtStart,
                         outcome, active, error, alertCount, deliveredOK, lost>>
     ELSE /\ file' = IF variant = "part_000" THEN SaveState(seen) ELSE file
          /\ EndCycle("ok")
          /\ error' = error
          /\ UNCHANGED <<quietVars, now, seen, found, handed, seenAtStart,
                         alertCount, deliveredOK, lost>>

\* A defective sender that does not look at response.ok.
SendStatusIgnored ==
  /\ pc = "send" /\ phase = "response" /\ ~respOk
  /\ EndCycle("ok")
  /\ UNCHANGED <<quietVars, now, seen, file, found, handed, seenAtStart, error,
                 alertCount, deliveredOK, lost>>

SendRejected ==
  /\ pc = "send" /\ phase = "response" /\ ~respOk
  /\ AwaitBody(FALSE)

\* throw new Error(`telegram send failed: ${response.status} ${body}`)
SendErrorBody ==
  /\ pc = "send" /\ phase = "body"
  /\ DispatchFails("telegram send failed")

(***************************************************************************)
(* The loop: await sleep(config.pollIntervalMs), then the next cycle.      *)
(***************************************************************************)
SleepDone ==
  /\ pc = "sleep"
  /\ EnterLoop

\* The steps the process takes by itself.
ProcessStep ==
  \/ MainFatal \/ MainStartupNotice \/ MainEnterLoop
  \/ SendAccepted \/ SendRejected
  \/ SleepDone

\* The continuations of await fetch(...): they run when the remote side has
\* answered.
ResponseStep ==
  \/ StartupResponse
  \/ GetResponse
  \/ CatResponse
  \/ ProbeResponse
  \/ CalResponse

\* The continuations of await response.text(): they run when the remote side
\* has finished the body.
BodyStep ==
  \/ StartupErrorBody
  \/ GetBodyIndex \/ GetBodyPart000
  \/ CatBodyNotOk \/ CatBodyOk
  \/ ProbeBody
  \/ CalBody
  \/ SendErrorBody

Next ==
  \/ ProcessStep
  \/ ResponseStep
  \/ BodyStep
  \/ TelegramResponds
  \/ ConnectionFails
  \/ TimerFires
  \/ Crash

Spec == Init /\ [][Next]_vars

(***************************************************************************)
(* One process run under the scheduling the runtime guarantees: a step of  *)
(* the process that is ready runs, and a timer that stays armed fires.     *)
(* Nothing makes a remote side answer or finish a body, and nobody kills   *)
(* the process.  The history variables observe one key and one start file. *)
(***************************************************************************)
LiveInit == Init /\ watch = Key(20, 1) /\ file = MissingFile

NextLive ==
  \/ ProcessStep
  \/ ResponseStep
  \/ BodyStep
  \/ TelegramResponds
  \/ ConnectionFails
  \/ TimerFires

LiveSpec ==
  /\ LiveInit
  /\ [][NextLive]_vars
  /\ WF_vars(ProcessStep)
  /\ WF_vars(TimerFires)

(***************************************************************************)
(* What the claims speak of.                                               *)
(***************************************************************************)
\* main is inside while (true).
InLoop == pc \in {"get", "cat", "probe", "cal", "send", "sleep"}

\* checkOnce is running.
InCycle == pc \in {"get", "cat", "probe", "cal", "send"}

\* The sweep of the cycle has ended: found is complete and the new slots, if
\* any, were handed to the dispatcher.
SweepDone ==
  \/ pc = "send"
  \/ pc = "sleep" /\ outcome \in {"ok", "dispatch_failed"}

\* This step hands an alert with key k to the dispatcher.
DispatchedWith(k) == handed = <<>> /\ handed' # <<>> /\ k \in KeysOf(handed')

\* The keys this cycle inserted into state.seen.
Marked == DOMAIN seen \ seenAtStart

\* The durable record holds key k.
InFile(f, k) == f.kind = "json" /\ k \in DOMAIN f.seen

(***************************************************************************)
(* The claims.                                                             *)
(***************************************************************************)

\* C1: in one process run every slot key is in at most one dispatched alert,
\* however many later cycles discover the slot again.
C1_AlertedAtMostOnce == alertCount <= 1

\* C2: once an alert with a key was delivered, no alert with that key is
\* dispatched again, in this process run or after a kill and a restart from
\* the state file.
C2_NoAlertAfterDelivery == [][deliveredOK => ~DispatchedWith(watch)]_vars

\* C3: a dispatch is made only in a cycle that discovered a key that was not
\* in the seen set when the cycle started.
C3_DispatchOnlyForNewKey == handed # <<>> => KeysOf(handed) \ seenAtStart # {}

\* C4: the slots handed to the dispatcher are the slots of found whose key
\* was not in the seen set at the start of the cycle, each key once, the
\* first occurrence in found, ordered by date and then planId; and after the
\* sweep the seen set holds every key of found.
C4_NewSetExactSortedAndMarked ==
  SweepDone =>
    /\ KeysOf(handed) = KeysOf(found) \ seenAtStart
    /\ \A i, j \in 1..Len(handed) : i < j => KeyOf(handed[i]) # KeyOf(handed[j])
    /\ \A i \in 1..Len(handed) :
         \E j \in 1..Len(found) :
           /\ found[j] = handed[i]
           /\ \A h \in 1..(j - 1) : KeyOf(found[h]) # KeyOf(handed[i])
    /\ \A i, j \in 1..Len(handed) : i < j => ~SlotBefore(handed[j], handed[i])
    /\ KeysOf(found) \subseteq DOMAIN seen

\* C5: while the process runs, a key of state.seen stays in it with the
\* timestamp it has.
C5_SeenGrowsOnly ==
  [][pc' # "boot" =>
       \A k \in DOMAIN seen : k \in DOMAIN seen' /\ seen'[k] = seen[k]]_vars

\* C5's case: a cycle ended that discovered again a key marked at an earlier time.
C5_Witness ==
  /\ pc = "sleep" /\ outcome = "ok"
  /\ watch \in KeysOf(found)
  /\ watch \in DOMAIN seen /\ seen[watch] >= 1 /\ seen[watch] < now

\* C6: when a cycle that notified a new slot has ended, the durable record
\* holds the in-memory seen mapping.
C6_SavedAfterNotifyingCycle ==
  pc = "sleep" /\ outcome = "ok" /\ handed # <<>> => file = JsonFile(seen)

\* C7: keys are inserted into seen before the dispatch is attempted; a failed
\* dispatch fails the cycle, leaves the keys it marked in seen, writes no
\* durable record, and no later cycle of the process offers those slots.
C7_MarkBeforeDispatch ==
  [][/\ pc = "send" /\ pc' # "boot" => seen' = seen
     /\ variant = "part_000" /\ handed' # <<>> =>
          KeysOf(handed') = DOMAIN seen' \ seenAtStart'
     /\ outcome' = "dispatch_failed" => pc' = "sleep" /\ file' = file
     /\ lost' => watch \in DOMAIN seen'
     /\ lost => ~DispatchedWith(watch)]_vars

\* C7's case: after a failed dispatch that had marked the key, a later cycle
\* discovered the slot again and ended without offering it.
C7_Witness ==
  /\ lost
  /\ pc = "sleep" /\ outcome = "ok"
  /\ watch \in KeysOf(found)
  /\ watch \notin KeysOf(handed)

C9_LoopNeverEnds ==
  /\ [][InLoop => InLoop']_vars
  /\ [][InCycle /\ ~InCycle' => pc' = "sleep"]_vars
  /\ [](pc = "sleep" => <>(pc = "get"))

\* C9's case: a cycle has failed and the loop sleeps.
C9_Witness == pc = "sleep" /\ outcome \in {"failed", "dispatch_failed"}

\* C10: every started cycle ends, in success or failure, and the loop
\* reaches its sleep, whatever the remote sides do.
C10_EveryCycleEnds == [](InCycle => <>(pc = "sleep"))

\* C11: at most one cycle is in progress and at most one HTTP request is in
\* flight; a cycle starts only when no cycle is in progress and, unless it is
\* the first cycle of the run, when the sleep after the previous cycle ends.
C11_OneCycleOneRequest ==
  /\ [](active <= 1 /\ inflight <= 1)
  /\ [][active' > active =>
          /\ active = 0
          /\ outcome # "none" => pc = "sleep" /\ outcome # "running"]_vars

\* C11's case: a cycle that follows a notifying cycle of the same run has a
\* calendar request in flight.
C11_Witness ==
  /\ alertCount >= 1
  /\ pc = "cal" /\ phase = "request"
  /\ active = 1 /\ inflight = 1

\* C12: the step in which an upstream call of a cycle fails ends the cycle:
\* the loop sleeps with no request in flight, no dispatch was or is made in
\* the cycle, the seen mapping is the one the cycle started with, the durable
\* record is written only by a step that ends a cycle in success, and every
\* cycle starts at the initial GET with fresh locals and an empty found list.
C12_FailedCycleAbandoned ==
  /\ [][outcome = "running" /\ outcome' = "failed" =>
          /\ pc' = "sleep" /\ inflight' = 0 /\ active' = 0
          /\ handed = <<>> /\ handed' = <<>>
          /\ seen' = seen /\ DOMAIN seen = seenAtStart
          /\ file' = file]_vars
  /\ [][file' # file => outcome' = "ok"]_vars
  /\ [][active' > active =>
          pc' = "get" /\ loc' = InitLoc /\ found' = <<>> /\ handed' = <<>>]_vars

\* C12's case: a calendar request timed out after an earlier request of the
\* sweep had found a slot, and the loop sleeps.
C12_Witness ==
  /\ pc = "sleep" /\ outcome = "failed" /\ error = "abort"
  /\ found # <<>>
  /\ inflight = 0

\* C13: the category step asks the ajax endpoint first; the page endpoint is
\* asked only after a non-2xx answer of the ajax endpoint was read; a timeout
\* or a network error of either request ends the cycle at once; a 2xx answer
\* ends the step and the cycle goes on to the plans; a non-2xx answer of the
\* page endpoint fails the cycle with the error of the page endpoint.
C13_CategoryFallback ==
  /\ [][pc = "get" /\ pc' = "cat" => TryUrls[loc'.catTry] = "ajax"]_vars
  /\ [][pc = "cat" /\ pc' = "cat" /\ loc'.catTry # loc.catTry =>
          /\ TryUrls[loc.catTry] = "ajax" /\ TryUrls[loc'.catTry] = "page"
          /\ phase = "body" /\ ~respOk /\ phase' = "request"]_vars
  /\ [][pc = "cat" /\ phase = "request" /\ pc' # "boot" =>
          \/ pc' = "cat" /\ phase' = "body" /\ loc' = loc
          \/ pc' = "sleep" /\ outcome' = "failed" /\ error' \in {"abort", "network"}]_vars
  /\ [][pc = "cat" /\ phase = "body" /\ respOk /\ pc' # "boot" =>
          \/ pc' \in {"probe", "cal"}
          \/ pc' = "sleep" /\ error' = "No plans detected"]_vars
  /\ [][pc = "cat" /\ phase = "body" /\ ~respOk /\ TryUrls[loc.catTry] = "page"
          /\ pc' # "boot" =>
          pc' = "sleep" /\ outcome' = "failed" /\ error' = CategoryError("page")]_vars

\* C13's case: both endpoints answered with a non-2xx status and the cycle
\* failed.
C13_Witness ==
  /\ pc = "sleep" /\ outcome = "failed"
  /\ error = CategoryError("page")

\* C14: in every cycle the initial GET comes first, the category POST follows
\* the landing page, every calendar POST follows the category answer (in
\* part_000, which has no category step, the landing page), and a calendar
\* POST carries a cookie and tokens taken from responses of the running cycle
\* only.
C14_SessionPerCycle ==
  /\ [](pc \in {"probe", "cal"} =>
          /\ loc.cookie # {} /\ loc.cookie \subseteq {"get", "cat"}
          /\ loc.tokens # {} /\ loc.tokens \subseteq {"get", "cat"}
          /\ variant = "index.js" =>
               loc.cookie = {"get", "cat"} /\ loc.tokens = {"cat"})
  /\ [](pc = "get" => loc.cookie = {} /\ loc.tokens = {})
  /\ [][active' > active => pc' = "get"]_vars
  /\ [][pc # "cat" /\ pc' = "cat" => pc = "get" /\ phase = "body"]_vars
  /\ [][pc \notin {"probe", "cal"} /\ pc' \in {"probe", "cal"} =>
          /\ phase = "body" /\ respOk
          /\ pc = (IF variant = "index.js" THEN "cat" ELSE "get")]_vars

\* C14's case: a calendar POST of a cycle that follows an earlier cycle of
\* the run is in flight.
C14_Witness ==
  /\ pc = "cal" /\ phase = "request"
  /\ alertCount >= 1
  /\ variant = "index.js"
  /\ loc.cookie = {"get", "cat"}

\* The plans of catalog with an allow-listed id, in catalog order.
Restricted(catalog, planIds, targets) ==
  LET idx == {i \in 1..Len(catalog) : \E j \in 1..Len(planIds) : catalog[i].id = planIds[j]}
  IN  /\ Len(targets) = Cardinality(idx)
      /\ \A k \in 1..Len(targets) :
           \E i \in idx : Cardinality({j \in idx : j <= i}) = k /\ targets[k] = catalog[i]

C16_AutoSelectVisaPlans ==
  pc \in {"cal", "send"} /\ Len(cfg.planIds) = 0
    /\ (\E i \in 1..Len(loc.allPlans) : IsVisaLabel(loc.allPlans[i].label))
  => /\ \A k \in 1..Len(loc.targetPlans) : IsVisaLabel(loc.targetPlans[k].label)
     /\ \A i \in 1..Len(loc.allPlans) :
          IsVisaLabel(loc.allPlans[i].label)
            => \E k \in 1..Len(loc.targetPlans) : loc.targetPlans[k] = loc.allPlans[i]

\* C17: a live run without the bot token or the chat id ends in main()
\* before anything else happens: the process exits with a non-zero code, the
\* state file is not loaded, no request is ever made, no cycle starts, and
\* no cycle ever fails with the error of the missing credentials.
C17_MissingCredentialsFatal ==
  /\ [](~cfg.dryRun /\ ~cfg.hasCreds =>
          /\ pc \in {"boot", "exited"}
          /\ seen = EmptySeen
          /\ ~requested /\ inflight = 0 /\ phase = "idle"
          /\ active = 0 /\ outcome = "none" /\ error = "none")
  /\ [][pc = "boot" /\ ~cfg.dryRun /\ ~cfg.hasCreds => pc' = "exited"]_vars
  /\ [](pc = "exited" => exitCode # 0)
  /\ [](error # MissingCredentials)

\* C17's case: the process has exited at startup although a state file with
\* a record was there to load.
C17_Witness ==
  /\ pc = "exited" /\ exitCode = 1
  /\ ~cfg.dryRun /\ ~cfg.hasCreds
  /\ file = JsonFile(Key(20, 1) :> 0)

\* C18: a startup notice that fails never keeps main() out of its loop: once
\* the notice is requested the first cycle eventually starts; and with the
\* toggle of index.js off no startup notice is requested.
C18_StartupNoticeNeverBlocks ==
  /\ [](pc = "startup" => <>InLoop)
  /\ [](variant = "index.js" /\ ~cfg.sendStartupNotice => pc # "startup")

(***************************************************************************)
(* loadState on whatever the state file holds, and the first access of the *)
(* seen filter to what it returned.                                        *)
(***************************************************************************)
\* The kinds of JSON value, and "absent" for a property that is not there.
JsonTypes == {"null", "number", "string", "boolean", "array", "object"}

\* typeof v, for v of JSON kind t (undefined for an absent property).
TypeOf(t) ==
  IF t = "absent" THEN "undefined"
  ELSE IF t \in {"null", "array", "object"} THEN "object"
  ELSE t

\* !v for v of JSON kind t.  A zero, an empty string and false are falsy as
\* well; their typeof is not 'object' either, so the kind is enough here.
Falsy(t) == t = "null"

\* What the state file holds: nothing (no file), text that JSON.parse
\* rejects, or a JSON value of kind top; for an object, seenT is the kind of
\* its seen property and seen the map when that is an object.
Content(kind, top, seenT, s) == [kind |-> kind, top |-> top, seenT |-> seenT, seen |-> s]

SeenMaps == UNION {[ks -> {0}] : ks \in SUBSET Keys}

Contents ==
  {Content("missing", "absent", "absent", EmptySeen),
   Content("invalid", "absent", "absent", EmptySeen)}
  \cup {Content("json", t, "absent", EmptySeen) : t \in JsonTypes}
  \cup {Content("json", "object", t, EmptySeen) : t \in JsonTypes \ {"object"}}
  \cup {Content("json", "object", "object", s) : s \in SeenMaps}

\* The state main() works on: the kind of state.seen and, for an object, its map.
State(seenT, s) == [seenT |-> seenT, seen |-> s]

\* { seen: {} }
EmptyState == State("object", EmptySeen)

\* loadState(stateFile): a missing file and a failed read or parse give the
\* empty state; so does parsed data that is falsy, not of type 'object', or
\* whose seen is not of type 'object'; any other data is returned as it is.
LoadStateOfContent(c) ==
  IF c.kind = "missing" THEN EmptyState
  ELSE IF c.kind = "invalid" THEN EmptyState
  ELSE IF Falsy(c.top) \/ TypeOf(c.top) # "object" \/ TypeOf(c.seenT) # "object"
       THEN EmptyState
       ELSE State(c.seenT, c.seen)

\* if (!state.seen[slot.key]) of the seen filter: reading a property of null
\* throws a TypeError; an array has no property named by a slot key.
SeenLookup(st, k) ==
  IF st.seenT = "null" THEN "TypeError"
  ELSE IF st.seenT = "object" /\ k \in DOMAIN st.seen THEN "seen"
  ELSE "new"

\* The state file's content and the key of the first slot the sweep finds.
LoadInit ==
  /\ arg \in {<<c, k>> : c \in Contents, k \in Keys}
  /\ ret = <<>>
  /\ variant \in Variants
  /\ cfg = Config(TRUE, FALSE, FALSE, <<>>, 1)
  /\ file = MissingFile
  /\ pc = "boot"
  /\ phase = "idle"
  /\ respOk = FALSE
  /\ timer = FALSE
  /\ now = 0
  /\ seen = EmptySeen
  /\ loc = InitLoc
  /\ found = <<>>
  /\ handed = <<>>
  /\ seenAtStart = {}
  /\ outcome = "none"
  /\ watch = Key(20, 1)
  /\ alertCount = 0
  /\ deliveredOK = FALSE
  /\ lost = FALSE
  /\ inflight = 0
  /\ active = 0
  /\ requested = FALSE
  /\ error = "none"
  /\ exitCode = 0

\* const state = loadState(config.stateFile) in main().
LoadStateStep ==
  /\ ret = <<>>
  /\ ret' = <<LoadStateOfContent(arg[1])>>
  /\ UNCHANGED <<variant, cfg, pc, phase, respOk, timer, now, seen, file, loc, found,
                 handed, seenAtStart, outcome, watch, alertCount, deliveredOK, lost,
                 inflight, active, requested, error, exitCode, arg>>

\* The first test of part_000's seen filter on the loaded state.
SeenFilterStep ==
  /\ variant = "part_000"
  /\ Len(ret) = 1
  /\ ret' = Append(ret, SeenLookup(ret[1], arg[2]))
  /\ UNCHANGED <<variant, cfg, pc, phase, respOk, timer, now, seen, file, loc, found,
                 handed, seenAtStart, outcome, watch, alertCount, deliveredOK, lost,
                 inflight, active, requested, error, exitCode, arg>>

NextLoad == LoadStateStep \/ SeenFilterStep

LoadSpec == LoadInit /\ [][NextLoad]_vars

\* C19: whatever the state file holds, loadState returns a state whose seen
\* is a key-to-timestamp map (the empty state for anything but an object
\* with an object-shaped seen), and the first test of the seen filter on it
\* does not throw.
C19_LoadStateAlwaysUsable ==
  /\ Len(ret) >= 1 =>
       /\ ret[1].seenT = "object"
       /\ arg[1].kind # "json" \/ arg[1].top # "object" \/ arg[1].seenT # "object"
            => ret[1] = EmptyState
  /\ Len(ret) >= 2 => ret[2] # "TypeError"

\* C20: a dry run never makes a request to the notification endpoint, and
\* what a cycle that ends without a failed delivery leaves behind does not
\* depend on the mode: no step into or inside a cycle writes the file, a
\* cycle failed upstream leaves the seen set and the file alone, and a
\* cycle that returns has, in part_000, added the keys it found to the seen
\* set and, if it handed an alert over, written the state to the file; in
\* index.js it has changed neither.
C20_DryRunSameState ==
  /\ [](cfg.dryRun => pc \notin {"startup", "send"})
  /\ [][pc' \in {"get", "cat", "probe", "cal", "send"} => file' = file]_vars
  /\ [][InCycle /\ pc' = "sleep" /\ outcome' = "failed" =>
          DOMAIN seen' = seenAtStart /\ file' = file]_vars
  /\ [][InCycle /\ pc' = "sleep" /\ outcome' = "ok" =>
          IF variant = "part_000"
          THEN /\ DOMAIN seen' = seenAtStart \cup KeysOf(found')
               /\ KeysOf(handed') = KeysOf(found') \ seenAtStart
               /\ file' = IF handed' # <<>> THEN JsonFile(seen') ELSE file
          ELSE /\ seen' = seen /\ DOMAIN seen' = seenAtStart
               /\ KeysOf(handed') = KeysOf(found')
               /\ file' = file]_vars

\* C20's case: a dry run of part_000 has ended a cycle that found a new
\* slot: the key is marked and saved, and nothing was sent.
C20_Witness ==
  /\ cfg.dryRun /\ variant = "part_000"
  /\ pc = "sleep" /\ outcome = "ok"
  /\ handed # <<>> /\ watch \in KeysOf(handed)
  /\ watch \in DOMAIN seen \ seenAtStart
  /\ file = JsonFile(seen)

(***************************************************************************)
(* The pure functions of index.js, each applied to inputs drawn at the     *)
(* start: arg holds the input, ret the result once the function was        *)
(* called.  The process itself stays where main() begins.                  *)
(***************************************************************************)
procVars == <<variant, cfg, pc, phase, respOk, timer, now, seen, file, loc, found,
              handed, seenAtStart, outcome, watch, alertCount, deliveredOK, lost,
              inflight, active, requested, error, exitCode>>

AtBoot ==
  /\ variant = "index.js"
  /\ cfg = Config(TRUE, FALSE, FALSE, <<>>, 1)
  /\ file = MissingFile
  /\ pc = "boot"
  /\ phase = "idle"
  /\ respOk = FALSE
  /\ timer = FALSE
  /\ now = 0
  /\ seen = EmptySeen
  /\ loc = InitLoc
  /\ found = <<>>
  /\ handed = <<>>
  /\ seenAtStart = {}
  /\ outcome = "none"
  /\ watch = Key(20, 1)
  /\ alertCount = 0
  /\ deliveredOK = FALSE
  /\ lost = FALSE
  /\ inflight = 0
  /\ active = 0
  /\ requested = FALSE
  /\ error = "none"
  /\ exitCode = 0

(***************************************************************************)
(* splitForTelegram(text, maxLen).  A string is the sequence of its        *)
(* characters; "\n" is the line feed.                                      *)
(***************************************************************************)
MaxText == 5
MaxLimit == 3

Chars == {"a", "\n"}

Texts == UNION {[1..n -> Chars] : n \in 0..MaxText}

\* text.split('\n'): the pieces between the line feeds, at least one.
RECURSIVE SplitLinesFrom(_, _, _, _)
SplitLinesFrom(text, i, line, out) ==
  IF i > Len(text) THEN Append(out, line)
  ELSE IF text[i] = "\n" THEN SplitLinesFrom(text, i + 1, <<>>, Append(out, line))
  ELSE SplitLinesFrom(text, i + 1, Append(line, text[i]), out)

SplitLines(text) == SplitLinesFrom(text, 1, <<>>, <<>>)

\* lines.join('\n')
RECURSIVE JoinLines(_)
JoinLines(lines) ==
  IF Len(lines) = 0 THEN <<>>
  ELSE IF Len(lines) = 1 THEN lines[1]
  ELSE lines[1] \o <<"\n">> \o JoinLines(Tail(lines))

\* rest.slice(0, maxLen) and rest.slice(maxLen)
SliceTo(s, n) == SubSeq(s, 1, Min(n, Len(s)))
SliceFrom(s, n) == SubSeq(s, Min(n, Len(s)) + 1, Len(s))

\* while (rest.length > maxLen) { chunks.push(rest.slice(0, maxLen)); rest = rest.slice(maxLen); }
RECURSIVE HardSplit(_, _, _)
HardSplit(rest, maxLen, chunks) ==
  IF Len(rest) > maxLen
  THEN HardSplit(SliceFrom(rest, maxLen), maxLen, Append(chunks, SliceTo(rest, maxLen)))
  ELSE [chunks |-> chunks, current |-> rest]

\* The body of for (const line of text.split('\n')) and what follows the loop.
\* `current ?` and `if (current)` test for the empty string.
RECURSIVE SplitLoop(_, _, _, _, _)
SplitLoop(lines, i, maxLen, chunks, current) ==
  IF i > Len(lines)
  THEN IF current # <<>> THEN Append(chunks, current) ELSE chunks
  ELSE LET line == lines[i]
           candidate == IF current # <<>> THEN current \o <<"\n">> \o line ELSE line
       IN  IF Len(candidate) <= maxLen
           THEN SplitLoop(lines, i + 1, maxLen, chunks, candidate)
           ELSE LET pushed == IF current # <<>> THEN Append(chunks, current) ELSE chunks
                IN  IF Len(line) <= maxLen
                    THEN SplitLoop(lines, i + 1, maxLen, pushed, line)
                    ELSE LET h == HardSplit(line, maxLen, pushed)
                         IN  SplitLoop(lines, i + 1, maxLen, h.chunks, h.current)

SplitForTelegram(text, maxLen) ==
  IF Len(text) <= maxLen THEN <<text>>
  ELSE SplitLoop(SplitLines(text), 1, maxLen, <<>>, <<>>)

SplitInit ==
  /\ AtBoot
  /\ arg \in {<<text, maxLen>> : text \in Texts, maxLen \in 1..MaxLimit}
  /\ ret = <<>>

\* const chunks = splitForTelegram(text, 3900)
SplitCall ==
  /\ ret = <<>>
  /\ ret' = <<SplitForTelegram(arg[1], arg[2])>>
  /\ UNCHANGED <<procVars, arg>>

SplitNext == SplitCall

SplitSpec == SplitInit /\ [][SplitNext]_vars

\* The concatenation of the strings of a sequence.
RECURSIVE Concat(_)
Concat(ss) == IF Len(ss) = 0 THEN <<>> ELSE ss[1] \o Concat(Tail(ss))

\* C21: every chunk is at most maxLen long; a text longer than maxLen gives at
\* least two chunks and a text within the limit the one unchanged text; a
\* single line longer than maxLen is cut into pieces of exactly maxLen and a
\* remainder.
C21_ChunksWithinLimit ==
  ret # <<>> =>
    LET text == arg[1]
        maxLen == arg[2]
        chunks == ret[1]
    IN  /\ \A i \in 1..Len(chunks) : Len(chunks[i]) <= maxLen
        /\ Len(text) > maxLen => Len(chunks) >= 2
        /\ Len(text) <= maxLen => chunks = <<text>>
        /\ Len(text) > maxLen /\ (\A i \in 1..Len(text) : text[i] # "\n") =>
             /\ \A i \in 1..(Len(chunks) - 1) : Len(chunks[i]) = maxLen
             /\ Concat(chunks) = text

\* The lines a text must arrive as: each line whole, or, when it is longer
\* than maxLen, as its pieces of maxLen characters and the remainder.
RECURSIVE Pieces(_, _)
Pieces(line, maxLen) ==
  IF Len(line) <= maxLen THEN <<line>>
  ELSE <<SliceTo(line, maxLen)>> \o Pieces(SliceFrom(line, maxLen), maxLen)

RECURSIVE ExpectedLines(_, _)
ExpectedLines(lines, maxLen) ==
  IF Len(lines) = 0 THEN <<>>
  ELSE Pieces(lines[1], maxLen) \o ExpectedLines(Tail(lines), maxLen)

\* C22: for a text longer than the limit, the chunks joined with line feeds
\* are the original text but for the line feeds put where a line was cut:
\* its lines are the lines of the original, in order, none lost, a line
\* longer than the limit as its pieces.
C22_ChunksReconstructText ==
  ret # <<>> /\ Len(arg[1]) > arg[2] =>
    SplitLines(JoinLines(ret[1])) = ExpectedLines(SplitLines(arg[1]), arg[2])

(***************************************************************************)
(* mergeCookieHeaders(existingCookie, newCookie).                          *)
(***************************************************************************)
MaxCookie == 3

CookieChars == {"a", "A", "=", ";", " "}

CookieStrings == UNION {[1..n -> CookieChars] : n \in 0..MaxCookie}

\* s.split(sep) for a separator of one character.
RECURSIVE SplitAtFrom(_, _, _, _, _)
SplitAtFrom(s, sep, i, part, out) ==
  IF i > Len(s) THEN Append(out, part)
  ELSE IF s[i] = sep THEN SplitAtFrom(s, sep, i + 1, <<>>, Append(out, part))
  ELSE SplitAtFrom(s, sep, i + 1, Append(part, s[i]), out)

SplitAt(s, sep) == SplitAtFrom(s, sep, 1, <<>>, <<>>)

\* s.trim(): without the white space at both ends.
RECURSIVE TrimStart(_)
TrimStart(s) == IF Len(s) > 0 /\ s[1] = " " THEN TrimStart(Tail(s)) ELSE s

RECURSIVE TrimEnd(_)
TrimEnd(s) ==
  IF Len(s) > 0 /\ s[Len(s)] = " " THEN TrimEnd(SubSeq(s, 1, Len(s) - 1)) ELSE s

Trim(s) == TrimEnd(TrimStart(s))

\* s.indexOf(ch): the position of the first ch counted from 0, or -1.
IndexOf(s, ch) ==
  IF \E i \in 1..Len(s) : s[i] = ch
  THEN (CHOOSE i \in 1..Len(s) : s[i] = ch /\ \A j \in 1..(i - 1) : s[j] # ch) - 1
  ELSE -1

\* A defective store that keeps the value a key had first.
MapSetIfAbsent(map, k, v) ==
  IF \E i \in 1..Len(map) : map[i][1] = k THEN map ELSE Append(map, <<k, v>>)

\* map.set(k, v): a Map keeps its entries in the order the keys came in.
MapSet(map, k, v) ==
  IF \E i \in 1..Len(map) : map[i][1] = k
  THEN [i \in 1..Len(map) |-> IF map[i][1] = k THEN <<k, v>> ELSE map[i]]
  ELSE Append(map, <<k, v>>)

\* The body of for (const part of `...`.split(';')).
RECURSIVE MergeLoop(_, _, _)
MergeLoop(parts, i, map) ==
  IF i > Len(parts) THEN map
  ELSE LET trimmed == Trim(parts[i])
           eq == IndexOf(trimmed, "=")
       IN  IF trimmed = <<>> THEN MergeLoop(parts, i + 1, map)
           ELSE IF eq <= 0 THEN MergeLoop(parts, i + 1, map)
           ELSE LET k == Trim(SubSeq(trimmed, 1, eq))
                    v == Trim(SubSeq(trimmed, eq + 2, Len(trimmed)))
                IN  MergeLoop(parts, i + 1, MapSet(map, k, v))

\* [...map.entries()].map(([k, v]) => `${k}=${v}`).join('; ')
RECURSIVE JoinEntries(_)
JoinEntries(map) ==
  IF Len(map) = 0 THEN <<>>
  ELSE IF Len(map) = 1 THEN map[1][1] \o <<"=">> \o map[1][2]
  ELSE map[1][1] \o <<"=">> \o map[1][2] \o <<";", " ">> \o JoinEntries(Tail(map))

MergeCookieHeaders(existingCookie, newCookie) ==
  JoinEntries(MergeLoop(SplitAt(existingCookie \o <<";", " ">> \o newCookie, ";"), 1, <<>>))

MergeInit ==
  /\ AtBoot
  /\ arg \in CookieStrings \X CookieStrings
  /\ ret = <<>>

\* cookie: mergeCookieHeaders(cookie, newCookie)
MergeCall ==
  /\ ret = <<>>
  /\ ret' = <<MergeCookieHeaders(arg[1], arg[2])>>
  /\ UNCHANGED <<procVars, arg>>

MergeNext == MergeCall

MergeSpec == MergeInit /\ [][MergeNext]_vars

\* The segments of both cookie strings, those of the new one last.
Segments(existingCookie, newCookie) == SplitAt(existingCookie, ";") \o SplitAt(newCookie, ";")

\* The segment holds a "=" with something but white space before it.
HasKey(seg) ==
  \E p \in 1..Len(seg) :
    /\ seg[p] = "="
    /\ \A j \in 1..(p - 1) : seg[j] # "="
    /\ \E j \in 1..(p - 1) : seg[j] # " "

\* The key and the value of such a segment: what is before and after its
\* first "=", without the white space around.
KeyIn(seg) == LET p == CHOOSE p \in 1..Len(seg) : seg[p] = "=" /\ \A j \in 1..(p - 1) : seg[j] # "="
              IN  Trim(SubSeq(seg, 1, p - 1))

ValueIn(seg) == LET p == CHOOSE p \in 1..Len(seg) : seg[p] = "=" /\ \A j \in 1..(p - 1) : seg[j] # "="
                IN  Trim(SubSeq(seg, p + 1, Len(seg)))

\* C23: the merged string is a list of entries "k=v" separated by "; ", one
\* for each distinct key of a segment of either input, with the value of the
\* key's last occurrence, the new cookie string coming after the existing
\* one; a segment with no "=" or an empty key contributes nothing.
C23_MergeLastWins ==
  ret # <<>> =>
    LET segs == Segments(arg[1], arg[2])
        occ == {i \in 1..Len(segs) : HasKey(segs[i])}
        last == {i \in occ : \A j \in occ : KeyIn(segs[j]) = KeyIn(segs[i]) => j <= i}
        expected == {KeyIn(segs[i]) \o <<"=">> \o ValueIn(segs[i]) : i \in last}
        entries == IF ret[1] = <<>> THEN <<>> ELSE SplitAt(ret[1], ";")
    IN  /\ Len(entries) = Cardinality(last)
        /\ {Trim(entries[i]) : i \in 1..Len(entries)} = expected
        /\ \A i \in 2..Len(entries) : entries[i][1] = " "

\* C23's case: the key "a" has one value in the existing cookie and another
\* in the new one, and the merged string holds the new one alone.
C23_Witness ==
  /\ ret = <<<<"a", "=", "A">>>>
  /\ arg = << <<"a", "=", "a">>, <<"a", "=", "A">> >>

(***************************************************************************)
(* parseAvailableDates(html, fallbackDate).  The page is what the regular  *)
(* expressions of the function see of it: the year and month of the date   *)
(* block, if there is one, and for each <td> cell whether it holds the      *)
(* icon_circle.svg and icon_disabled.svg markers and the Available token,   *)
(* its data-date values in order, and the number of its sc_cal_date label.  *)
(***************************************************************************)
MaxCells == 2

\* An ISO date "yyyy-mm-dd" as the number yyyymmdd: the strings have fields
\* of fixed width, so their order as strings is the order of the numbers.
IsoDate(y, m, d) == y * 10000 + m * 100 + d

\* No date block in the page, no day label in the cell.
NoBlock == <<>>
NoDay == -1

Cell(circle, dataDates, disabled, token, day) ==
  [circle |-> circle, dataDates |-> dataDates, disabled |-> disabled,
   token |-> token, day |-> day]

Cells ==
  { Cell(c, ds, x, t, d) :
      c \in BOOLEAN,
      ds \in {<<>>, << <<2026, 5, 1>> >>, << <<2026, 5, 2>>, <<2026, 5, 1>> >>},
      x \in BOOLEAN, t \in BOOLEAN, d \in {NoDay, 0, 1, 32} }

Pages ==
  { [block |-> b, cells |-> cs] :
      b \in {NoBlock, <<2026, 5>>},
      cs \in UNION {[1..n -> Cells] : n \in 0..MaxCells} }

\* parseYearMonth: the year and month of the date block, else those of
\* fallbackDate.
ParseYearMonth(html, fallbackDate) ==
  IF html.block = NoBlock THEN fallbackDate ELSE html.block

\* rsvDateToIso("yyyy/mm/dd") and toIsoDate(year, month, day).
RsvDateToIso(raw) == IsoDate(raw[1], raw[2], raw[3])
ToIsoDate(year, month, day) == IsoDate(year, month, day)

\* A defective loop body without the rule of the disabled icon.
CellDatesNoDisabledRule(cell, year, month) ==
  IF cell.circle /\ Len(cell.dataDates) > 0
  THEN [i \in 1..Len(cell.dataDates) |-> RsvDateToIso(cell.dataDates[i])]
  ELSE IF ~cell.token THEN <<>>
  ELSE IF cell.day = NoDay THEN <<>>
  ELSE IF cell.day < 1 \/ cell.day > 31 THEN <<>>
  ELSE <<ToIsoDate(year, month, cell.day)>>

\* The body of the while loop: what one cell pushes to dates.  The `continue`
\* of the available icon is inside if (dateMatches.length > 0).
CellDates(cell, year, month) ==
  IF cell.circle /\ Len(cell.dataDates) > 0
  THEN [i \in 1..Len(cell.dataDates) |-> RsvDateToIso(cell.dataDates[i])]
  ELSE IF cell.disabled THEN <<>>
  ELSE IF ~cell.token THEN <<>>
  ELSE IF cell.day = NoDay THEN <<>>
  ELSE IF cell.day < 1 \/ cell.day > 31 THEN <<>>
  ELSE <<ToIsoDate(year, month, cell.day)>>

RECURSIVE AllCellDates(_, _, _, _)
AllCellDates(cells, i, year, month) ==
  IF i > Len(cells) THEN <<>>
  ELSE CellDates(cells[i], year, month) \o AllCellDates(cells, i + 1, year, month)

\* [...new Set(dates)].sort()
RECURSIVE SortSet(_)
SortSet(S) ==
  IF S = {} THEN <<>>
  ELSE LET least == CHOOSE x \in S : \A y \in S : x <= y
       IN  <<least>> \o SortSet(S \ {least})

SortedUnique(dates) == SortSet(Range(dates))

ParseAvailableDates(html, fallbackDate) ==
  LET ym == ParseYearMonth(html, fallbackDate)
  IN  SortedUnique(AllCellDates(html.cells, 1, ym[1], ym[2]))

ParseInit ==
  /\ AtBoot
  /\ arg \in {<<html, <<2026, 6>> >> : html \in Pages}
  /\ ret = <<>>

\* const dates = parseAvailableDates(html, targetDate)
ParseCall ==
  /\ ret = <<>>
  /\ ret' = <<ParseAvailableDates(arg[1], arg[2])>>
  /\ UNCHANGED <<procVars, arg>>

ParseNext == ParseCall

ParseSpec == ParseInit /\ [][ParseNext]_vars

\* The ambient year and month of the page in arg.
Ambient == IF arg[1].block = NoBlock THEN arg[2] ELSE arg[1].block

\* What the text rule gives for a cell: the ambient year and month with the
\* day of the cell, when it carries the token and a day in 1..31.
ByText(cell) ==
  IF cell.token /\ cell.day \in 1..31
  THEN {IsoDate(Ambient[1], Ambient[2], cell.day)} ELSE {}

ByDataDate(cell) ==
  {IsoDate(cell.dataDates[i][1], cell.dataDates[i][2], cell.dataDates[i][3]) :
     i \in 1..Len(cell.dataDates)}

\* The result in ret is the sorted, duplicate-free list of the dates that
\* rule(cell) gives for the cells of the page.
ResultIs(rule(_)) ==
  LET dates == ret[1]
      cells == arg[1].cells
  IN  /\ \A i \in 1..(Len(dates) - 1) : dates[i] < dates[i + 1]
      /\ Range(dates) = UNION {rule(cells[i]) : i \in 1..Len(cells)}

\* The first applicable rule as the claim has it.
FirstRule(cell) ==
  IF cell.circle THEN ByDataDate(cell)
  ELSE IF cell.disabled THEN {}
  ELSE ByText(cell)

\* The first applicable rule with the available icon counting only when the
\* cell holds a data-date.
FirstRuleAmended(cell) ==
  IF cell.circle /\ Len(cell.dataDates) > 0 THEN ByDataDate(cell)
  ELSE IF cell.disabled THEN {}
  ELSE ByText(cell)

\* C24 (as stated): each cell is classified by the first applicable rule: with
\* the available icon it contributes exactly its data-date values, possibly
\* none, and no later rule looks at it; else with the disabled icon nothing;
\* else the ambient year and month with its day when it carries the token and
\* a day in 1..31; the result is sorted and free of duplicates.
C24_FirstApplicableRule == ret # <<>> => ResultIs(FirstRule)

\* C24 (amended): as above, but a cell with the available icon and no
\* data-date value is classified by the later rules: nothing with the
\* disabled icon, else the ambient date of its day when it carries the
\* token and a day in 1..31.
C24_FirstApplicableRuleAmended == ret # <<>> => ResultIs(FirstRuleAmended)

\* C24's case: a cell with the available icon and two data-date values in
\* descending order next to a disabled cell that carries the token and a day:
\* the result is the two dates, ascending.
C24_Witness ==
  /\ ret = << <<IsoDate(2026, 5, 1), IsoDate(2026, 5, 2)>> >>
  /\ Len(arg[1].cells) = 2
  /\ arg[1].cells[1] = Cell(TRUE, << <<2026, 5, 2>>, <<2026, 5, 1>> >>, FALSE, TRUE, 1)
  /\ arg[1].cells[2] = Cell(FALSE, <<>>, TRUE, TRUE, 1)

\* C25: the calendar POSTs of a cycle.  index.js makes the probe without a
\* plan once, after the category answer and before the sweep, exactly when
\* no allow-list is set.  The sweep begins with the first target plan and
\* offset 0; each further request is for the next offset of the same plan
\* or, after offset monthsAhead - 1, for offset 0 of the next plan; and the
\* sweep ends only after the request for the last plan and the last offset:
\* one request per pair, target plans times monthsAhead in all.
C25_CalendarRequests ==
  /\ [](pc = "probe" => variant = "index.js" /\ Len(cfg.planIds) = 0)
  /\ [][pc # "probe" /\ pc' = "probe" => pc = "cat"]_vars
  /\ [][pc = "probe" /\ pc' = "probe" => loc' = loc /\ phase' # "request"]_vars
  /\ [][pc # "cal" /\ pc' = "cal" =>
          /\ variant = "index.js" => (pc = "probe") = (Len(cfg.planIds) = 0)
          /\ phase' = "request"
          /\ loc'.pi = 1 /\ loc'.m = 0]_vars
  /\ [](pc = "cal" => /\ loc.pi \in 1..Len(loc.targetPlans)
                      /\ loc.m \in 0..(cfg.monthsAhead - 1))
  /\ [][pc = "cal" /\ pc' = "cal" =>
          /\ loc'.targetPlans = loc.targetPlans
          /\ IF phase' = "request"
             THEN /\ phase = "body"
                  /\ IF loc.m + 1 < cfg.monthsAhead
                     THEN loc'.pi = loc.pi /\ loc'.m = loc.m + 1
                     ELSE loc'.pi = loc.pi + 1 /\ loc'.m = 0
             ELSE loc'.pi = loc.pi /\ loc'.m = loc.m]_vars
  /\ [][pc = "cal" /\ (pc' = "send" \/ (pc' = "sleep" /\ outcome' = "ok")) =>
          /\ phase = "body"
          /\ loc.pi = Len(loc.targetPlans)
          /\ loc.m = cfg.monthsAhead - 1]_vars

\* C25's case: without an allow-list index.js has made the probe and swept
\* two target plans to the end.
C25_Witness ==
  /\ variant = "index.js" /\ Len(cfg.planIds) = 0
  /\ pc = "send"
  /\ Len(loc.targetPlans) = 2 /\ loc.pi = 2 /\ loc.m = cfg.monthsAhead - 1

\* C26: the chunks of an alert go out one request each, in order: the first
\* when the dispatch begins, chunk k + 1 only in the step that sees the 2xx
\* answer to chunk k; a chunk answered otherwise is followed by no further
\* chunk, and the dispatch then ends as a failure of the cycle; the dispatch
\* ends well only on the 2xx answer to the last chunk.
C26_ChunksInOrder ==
  /\ [][pc # "send" /\ pc' = "send" =>
          /\ phase' = "request" /\ loc'.chunk = 1
          /\ loc'.nChunks >= 1]_vars
  /\ [](pc = "send" => loc.chunk \in 1..loc.nChunks)
  /\ [][pc = "send" /\ pc' = "send" =>
          /\ loc'.nChunks = loc.nChunks
          /\ IF phase' = "request"
             THEN phase = "response" /\ respOk /\ loc'.chunk = loc.chunk + 1
             ELSE loc'.chunk = loc.chunk]_vars
  /\ [][pc = "send" /\ phase \in {"response", "body"} /\ ~respOk =>
          \/ pc' = "send" /\ phase' = "body" /\ loc'.chunk = loc.chunk /\ ~respOk'
          \/ /\ pc' = "sleep" /\ outcome' = "dispatch_failed"
             /\ phase = "body" => error' = "telegram send failed"
          \/ pc' = "boot"]_vars
  /\ [][pc = "send" /\ pc' = "sleep" /\ outcome' = "ok" =>
          phase = "response" /\ respOk /\ loc.chunk = loc.nChunks]_vars
  /\ [][pc = "send" /\ pc' = "sleep" => outcome' \in {"ok", "dispatch_failed"}]_vars

\* C26's case: the first chunk of an alert of index.js was accepted and the
\* second one is on its way.
C26_Witness ==
  /\ variant = "index.js"
  /\ pc = "send" /\ phase = "request"
  /\ loc.nChunks = 2 /\ loc.chunk = 2

(***************************************************************************)
(* addMonths(dateObj, months) and the probe dates of the sweep.  A Date is *)
(* its local year, month (1..12) and day.                                  *)
(***************************************************************************)
MaxAhead == 3

Years == {2023, 2024}

IsLeap(y) == (y % 4 = 0 /\ y % 100 # 0) \/ y % 400 = 0

DaysInMonth(y, m) ==
  IF m = 2 THEN (IF IsLeap(y) THEN 29 ELSE 28)
  ELSE IF m \in {4, 6, 9, 11} THEN 30
  ELSE 31

CalendarDates == {<<y, m, d>> \in Years \X (1..12) \X (1..31) : d <= DaysInMonth(y, m)}

\* The Date with the given year, month index (from 0, any size) and day of
\* the month (1..31): a day past the end of the month counts on into the
\* next month, as the Date object normalises its fields.
MakeDate(y, monthIndex, d) ==
  LET yy == y + (monthIndex \div 12)
      mm == (monthIndex % 12) + 1
      dim == DaysInMonth(yy, mm)
  IN  IF d <= dim THEN <<yy, mm, d>>
      ELSE IF mm = 12 THEN <<yy + 1, 1, d - dim>>
      ELSE <<yy, mm + 1, d - dim>>

\* d.setMonth(d.getMonth() + months) on a copy of dateObj.
AddMonths(dateObj, months) == MakeDate(dateObj[1], (dateObj[2] - 1) + months, dateObj[3])

\* const date = addMonths(new Date(), m) for m = 0 .. monthsAhead - 1.
ProbeDates(today, monthsAhead) == [i \in 1..monthsAhead |-> AddMonths(today, i - 1)]

AddInit ==
  /\ AtBoot
  /\ arg \in CalendarDates \X (1..MaxAhead)
  /\ ret = <<>>

\* The dates one plan's sweep asks the calendar for.
AddCall ==
  /\ ret = <<>>
  /\ ret' = <<ProbeDates(arg[1], arg[2])>>
  /\ UNCHANGED <<procVars, arg>>

AddNext == AddCall

AddSpec == AddInit /\ [][AddNext]_vars

\* The months since year 0 of a date.
MonthNumber(date) == date[1] * 12 + (date[2] - 1)

\* C27: the probe dates for m = 0 .. monthsAhead - 1 fall in monthsAhead
\* consecutive calendar months beginning with the month of today: the m-th
\* one in the m-th month after it, whatever the day of today.
C27_ConsecutiveMonths ==
  ret # <<>> =>
    /\ Len(ret[1]) = arg[2]
    /\ \A i \in 1..Len(ret[1]) : MonthNumber(ret[1][i]) = MonthNumber(arg[1]) + (i - 1)

\* C28: a key the durable record gained in this run (its timestamp is a
\* reading of this run's clock, not the 0 of a record found at the start)
\* belongs to a slot whose alert was delivered, or logged in a dry run; so
\* a key marked in a cycle whose dispatch failed, and never delivered
\* since, is not in the record.
C28_SavedKeysWereDelivered ==
  /\ InFile(file, watch) /\ file.seen[watch] > 0 => deliveredOK
  /\ lost /\ ~deliveredOK => ~InFile(file, watch) \/ file.seen[watch] = 0

====
